---- MODULE Spec2Model ----
(***************************************************************************)
(* Model of src/src/features/hotkey.tsx: the hotkey registry `hotkeys`,    *)
(* the addLayer / removeLayer handlers that maintain it, and the           *)
(* document.onkeydown handler that resolves a key event to candidate key   *)
(* strings and dispatches the hotkey found under the first candidate that  *)
(* is a property of the registry.                                          *)
(*                                                                         *)
(* A JavaScript string is modelled as a sequence of one-character strings, *)
(* so that toUpperCase / toLowerCase / concatenation are computed.         *)
(***************************************************************************)
EXTENDS Integers, Sequences, FiniteSets, TLC

VARIABLES
    hotkeys,              \* the registry: key string -> hotkey id or Undefined
    cond,                 \* outside state read by the computed `enabled` options
    hasWon,               \* hasWon.value
    keepGoing,            \* player.keepGoing
    handling,             \* TRUE in the state right after a key-down was handled
    e,                    \* the key-down event handled last
    hotkey,               \* the handler's local `hotkey` (line 125), or Undefined
    onPressCalls,         \* hotkeys whose onPress the last key-down invoked, in order
    preventDefaultCalls,  \* number of e.preventDefault() calls of the last key-down
    notes,                \* history: each layer's latest notification, oldest first
    gatedPress,           \* history: a key-down was suppressed by the win gate and
                          \* no addLayer/removeLayer has been received since
    fired,                \* history: the hotkeys with a computed `enabled` whose
                          \* onPress has been invoked at least once
    built,                \* the hotkeys whose lazy proxy holds its constructed object
    optionsCalls,         \* per hotkey, the number of calls of its options function
    accessed,             \* history: the hotkeys a field of which has been read
    reading,              \* the hotkey whose `enabled` was read outside a key-down
                          \* in the last step, or Undefined
    readValue             \* the value that read returned

lazyVars == <<built, optionsCalls, accessed>>

vars == <<hotkeys, cond, hasWon, keepGoing, handling, e, hotkey,
          onPressCalls, preventDefaultCalls, notes, gatedPress, fired,
          built, optionsCalls, accessed, reading, readValue>>

(***************************************************************************)
(* Strings                                                                 *)
(***************************************************************************)
LowerLetters == <<"a","b","c","d","e","f","g","h","i","j","k","l","m",
                  "n","o","p","q","r","s","t","u","v","w","x","y","z">>
UpperLetters == <<"A","B","C","D","E","F","G","H","I","J","K","L","M",
                  "N","O","P","Q","R","S","T","U","V","W","X","Y","Z">>

IndexIn(seq, x) == CHOOSE i \in 1..Len(seq) : seq[i] = x

UpperChar(c) ==
    IF \E i \in 1..Len(LowerLetters) : LowerLetters[i] = c
    THEN UpperLetters[IndexIn(LowerLetters, c)] ELSE c

LowerChar(c) ==
    IF \E i \in 1..Len(UpperLetters) : UpperLetters[i] = c
    THEN LowerLetters[IndexIn(UpperLetters, c)] ELSE c

toUpperCase(s) == [i \in 1..Len(s) |-> UpperChar(s[i])]
toLowerCase(s) == [i \in 1..Len(s) |-> LowerChar(s[i])]

EmptyString == << >>
CtrlPlus == <<"c","t","r","l","+">>
ShiftPlus == <<"s","h","i","f","t","+">>
CtrlShiftPlus == CtrlPlus \o ShiftPlus
ShiftCtrlPlus == ShiftPlus \o CtrlPlus

\* variant: the symbols in the order of the keyboard's digit row, 1 to 9 then 0
uppercaseNumbersKeyboardRow == << <<"!">>, <<"@">>, <<"#">>, <<"$">>, <<"%">>,
                                 <<"^">>, <<"&">>, <<"*">>, <<"(">>, <<")">> >>

\* line 62; element i+1 is the symbol typed by shift + digit i
uppercaseNumbers == << <<")">>, <<"!">>, <<"@">>, <<"#">>, <<"$">>,
                       <<"%">>, <<"^">>, <<"&">>, <<"*">>, <<"(">> >>

\* Array.prototype.includes
includes(arr, x) == \E i \in 1..Len(arr) : arr[i] = x
\* Array.prototype.indexOf (zero-based; only used where includes holds)
indexOf(arr, x) == (CHOOSE i \in 1..Len(arr) : arr[i] = x /\ \A j \in 1..(i-1) : arr[j] # x) - 1
\* string + number: the decimal rendering of an index 0..9
Digits == <<"0","1","2","3","4","5","6","7","8","9">>
NumberToString(n) == << Digits[n + 1] >>

(***************************************************************************)
(* Layers and the hotkeys they contribute                                  *)
(***************************************************************************)
Undefined == "undefined"

Layers == {"main", "prestige", "combo"}

\* The options each hotkey's options function returns: its key and the
\* `enabled` option, which is omitted, a plain value ("true", "false") or a
\* function computing the value from outside state.
HotkeyOptions == [
    mA    |-> [key |-> <<"a">>,                      enabled |-> "omitted"],
    mS1   |-> [key |-> ShiftPlus \o <<"1">>,         enabled |-> "omitted"],
    mCSa  |-> [key |-> CtrlShiftPlus \o <<"a">>,     enabled |-> "true"],
    mSA   |-> [key |-> ShiftPlus \o <<"A">>,         enabled |-> "omitted"],
    mSCb  |-> [key |-> ShiftCtrlPlus \o <<"!">>,     enabled |-> "omitted"],
    pA    |-> [key |-> <<"a">>,                      enabled |-> "function"],
    pB    |-> [key |-> <<"!">>,                      enabled |-> "omitted"],
    pSCA  |-> [key |-> ShiftCtrlPlus \o <<"A">>,     enabled |-> "omitted"],
    pSa   |-> [key |-> ShiftPlus \o <<"a">>,         enabled |-> "omitted"],
    pCa1  |-> [key |-> CtrlPlus \o <<"a">>,          enabled |-> "false"],
    pCa2  |-> [key |-> CtrlPlus \o <<"a">>,          enabled |-> "omitted"],
    cCSA  |-> [key |-> CtrlShiftPlus \o <<"A">>,     enabled |-> "omitted"],
    cSCa  |-> [key |-> ShiftCtrlPlus \o <<"a">>,     enabled |-> "omitted"],
    cSB   |-> [key |-> ShiftPlus \o <<"!">>,         enabled |-> "false"],
    cCS1  |-> [key |-> CtrlShiftPlus \o <<"1">>,     enabled |-> "omitted"],
    cUA   |-> [key |-> <<"A">>,                      enabled |-> "omitted"],
    cSA   |-> [key |-> ShiftPlus \o <<"A">>,         enabled |-> "omitted"],
    cE    |-> [key |-> EmptyString,                  enabled |-> "omitted"] ]

HotkeyIds == DOMAIN HotkeyOptions

\* the hotkeys whose `enabled` option is a computation over outside state
ComputedIds == {h \in HotkeyIds : HotkeyOptions[h].enabled = "function"}

\* findFeatures(layer, HotkeyType): the layer's hotkeys in enumeration order
findFeatures(layer) ==
    CASE layer = "main"     -> <<"mA", "mS1", "mCSa", "mSA", "mSCb">>
      [] layer = "prestige" -> <<"pA", "pB", "pSCA", "pSa", "pCa1", "pCa2">>
      [] layer = "combo"    -> <<"cCSA", "cSCa", "cSB", "cCS1", "cUA", "cSA", "cE">>

\* processComputable(hotkey, "enabled"): a function becomes a wrapper that
\* is evaluated on each read; a plain or missing value is left as it is
processComputable(v) == IF v = "function" THEN "computed" ELSE v

\* setDefault(hotkey, "enabled", true): fills the field only when it is missing
setDefault(v, d) == IF v = "omitted" THEN d ELSE v

\* variant: line 76 is missing, an omitted `enabled` stays undefined
createHotkeyNoDefault(h) ==
    [key |-> HotkeyOptions[h].key,
     enabled |-> processComputable(HotkeyOptions[h].enabled)]

\* createHotkey, lines 71-80: the materialised hotkey
createHotkey(h) ==
    [key |-> HotkeyOptions[h].key,
     enabled |-> setDefault(processComputable(HotkeyOptions[h].enabled), "true")]

\* variant: a computation is evaluated once, when the hotkey is constructed
\* (every condition holds then), and that value is kept
unrefAtConstruction(h) ==
    LET en == createHotkey(h).enabled
    IN  en = "computed" \/ en = "true"

\* unref(hotkey.enabled): the current value of the processed field
unref(h) ==
    LET en == createHotkey(h).enabled
    IN  IF en = "computed" THEN cond[h] ELSE en = "true"

\* variant: createHotkey runs the options function itself, before any access
CreatedCallsEager == [h \in HotkeyIds |-> 1]

\* lines 68-71: createHotkey returns the lazy proxy; the closure that calls
\* the options function has not run for any hotkey
CreatedCalls == [h \in HotkeyIds |-> 0]

\* line 72: the closure calls the options function of hotkey h
BuildHotkey(calls, h) == [calls EXCEPT ![h] = @ + 1]

\* createLazyProxy: reading any field of the proxy runs the closure the first
\* time and uses the object it returned from then on
Access(st, h) ==
    IF h \in st.built THEN st
    ELSE [built |-> st.built \cup {h}, calls |-> BuildHotkey(st.calls, h)]

\* the field reads of a forEach over the features of a layer, from index i on
RECURSIVE AccessFrom(_, _, _)
AccessFrom(st, feats, i) ==
    IF i > Len(feats) THEN st
    ELSE AccessFrom(Access(st, feats[i]), feats, i + 1)

(***************************************************************************)
(* Registry writes (lines 83-93)                                           *)
(***************************************************************************)
\* hotkeys[key] = value
Assign(reg, key, value) ==
    [k \in DOMAIN reg \cup {key} |-> IF k = key THEN value ELSE reg[k]]

\* variant: the hotkey is filed under the lower-cased key
RECURSIVE RegisterFromLowerCased(_, _, _)
RegisterFromLowerCased(reg, feats, i) ==
    IF i > Len(feats) THEN reg
    ELSE RegisterFromLowerCased(
             Assign(reg, toLowerCase(createHotkey(feats[i]).key), feats[i]),
             feats, i + 1)

\* variant: a key that already holds a definition is not overwritten
RECURSIVE RegisterFromFirstWins(_, _, _)
RegisterFromFirstWins(reg, feats, i) ==
    IF i > Len(feats) THEN reg
    ELSE LET key == createHotkey(feats[i]).key
         IN  RegisterFromFirstWins(
                 IF key \in DOMAIN reg /\ reg[key] # Undefined
                 THEN reg ELSE Assign(reg, key, feats[i]),
                 feats, i + 1)

\* variant: only the first hotkey of the layer is registered
RegisterFromOnlyFirst(reg, feats, i) ==
    IF i > Len(feats) THEN reg
    ELSE Assign(reg, createHotkey(feats[i]).key, feats[i])

\* addLayer's forEach over the features of a layer, from index i on
RECURSIVE RegisterFrom(_, _, _)
RegisterFrom(reg, feats, i) ==
    IF i > Len(feats) THEN reg
    ELSE RegisterFrom(Assign(reg, createHotkey(feats[i]).key, feats[i]), feats, i + 1)

\* variant: removing a layer clears the whole registry
ClearFromAll(reg, feats, i) ==
    [k \in DOMAIN reg \cup { createHotkey(feats[j]).key : j \in 1..Len(feats) }
        |-> Undefined]

\* variant: a key is cleared only while it holds the removed layer's own hotkey
RECURSIVE ClearFromOwn(_, _, _)
ClearFromOwn(reg, feats, i) ==
    IF i > Len(feats) THEN reg
    ELSE LET key == createHotkey(feats[i]).key
         IN  ClearFromOwn(
                 IF key \in DOMAIN reg /\ reg[key] # feats[i]
                 THEN reg ELSE Assign(reg, key, Undefined),
                 feats, i + 1)

\* removeLayer's forEach over the features of a layer, from index i on
RECURSIVE ClearFrom(_, _, _)
ClearFrom(reg, feats, i) ==
    IF i > Len(feats) THEN reg
    ELSE ClearFrom(Assign(reg, createHotkey(feats[i]).key, Undefined), feats, i + 1)

(***************************************************************************)
(* Key events and the resolver (lines 102-124)                             *)
(***************************************************************************)
\* e.target's tagName; "null" stands for an event without a target
Targets == {"INPUT", "BODY", "null"}
EventsOver(keys) ==
    [key : keys, shiftKey : BOOLEAN, ctrlKey : BOOLEAN, target : Targets]

\* the key-downs of the full model
EventKeys == { <<"a">>, <<"!">>, <<"q">> }
Events == EventsOver(EventKeys)

\* the key-downs of the resolver model: every shifted-digit symbol, letters of
\* both cases, a digit and a named key
ResolverKeys ==
    { uppercaseNumbers[i] : i \in 1..Len(uppercaseNumbers) }
    \cup { <<"a">>, <<"A">>, <<"k">>, <<"K">>, <<"q">>, <<"1">>,
           <<"E","n","t","e","r">> }
ResolverEvents ==
    { ev \in EventsOver(ResolverKeys) : ev.target = "BODY" }
NoEvent == [key |-> <<"q">>, shiftKey |-> FALSE, ctrlKey |-> FALSE, target |-> "null"]

\* variant: the literal key is left in front of the list
ShiftCtrlKeysKeepLiteral(ev) ==
    << ev.key,
       CtrlShiftPlus \o toUpperCase(ev.key),
       ShiftCtrlPlus \o toUpperCase(ev.key) >>
    \o (IF includes(uppercaseNumbers, ev.key)
        THEN << CtrlShiftPlus \o NumberToString(indexOf(uppercaseNumbers, ev.key)),
                ShiftCtrlPlus \o NumberToString(indexOf(uppercaseNumbers, ev.key)) >>
        ELSE << CtrlShiftPlus \o toLowerCase(ev.key),
                ShiftCtrlPlus \o toLowerCase(ev.key) >>)

\* lines 103-113: shift and ctrl both held
ShiftCtrlKeys(ev) ==
    << CtrlShiftPlus \o toUpperCase(ev.key),
       ShiftCtrlPlus \o toUpperCase(ev.key) >>
    \o (IF includes(uppercaseNumbers, ev.key)
        THEN << CtrlShiftPlus \o NumberToString(indexOf(uppercaseNumbers, ev.key)),
                ShiftCtrlPlus \o NumberToString(indexOf(uppercaseNumbers, ev.key)) >>
        ELSE << CtrlShiftPlus \o toLowerCase(ev.key),
                ShiftCtrlPlus \o toLowerCase(ev.key) >>)

\* variant: the digit alias is pushed before the shift+symbol form
SymbolKeysDigitFirst(ev) ==
    << ev.key,
       ShiftPlus \o NumberToString(indexOf(uppercaseNumbers, ev.key)),
       ShiftPlus \o ev.key >>

\* lines 114-116: the key is a shifted-digit symbol
SymbolKeys(ev) ==
    << ev.key,
       ShiftPlus \o ev.key,
       ShiftPlus \o NumberToString(indexOf(uppercaseNumbers, ev.key)) >>

\* variant: the literal key is not a candidate when shift is held
ShiftKeysDropLiteral(ev) ==
    << ShiftPlus \o toUpperCase(ev.key),
       ShiftPlus \o toLowerCase(ev.key) >>

\* variant: the lower-cased alias is pushed before the upper-cased one
ShiftKeysLowerFirst(ev) ==
    << ev.key,
       ShiftPlus \o toLowerCase(ev.key),
       ShiftPlus \o toUpperCase(ev.key) >>

\* lines 117-119: shift held
ShiftKeys(ev) ==
    << ev.key,
       ShiftPlus \o toUpperCase(ev.key),
       ShiftPlus \o toLowerCase(ev.key) >>

\* variant: e.key is not spliced out of the list
CtrlKeysKeepLiteral(ev) == << ev.key, CtrlPlus \o ev.key >>

\* lines 120-123: ctrl held
CtrlKeys(ev) == << CtrlPlus \o ev.key >>

\* lines 102-124
keysToCheck(ev) ==
    IF ev.shiftKey /\ ev.ctrlKey THEN ShiftCtrlKeys(ev)
    ELSE IF includes(uppercaseNumbers, ev.key) THEN SymbolKeys(ev)
    ELSE IF ev.shiftKey THEN ShiftKeys(ev)
    ELSE IF ev.ctrlKey THEN CtrlKeys(ev)
    ELSE << ev.key >>

\* variant: the first candidate whose hotkey is enabled is selected
FindKeyFirstEnabled(reg, keys) ==
    IF \E i \in 1..Len(keys) :
           keys[i] \in DOMAIN reg /\ reg[keys[i]] # Undefined /\ unref(reg[keys[i]])
    THEN keys[CHOOSE i \in 1..Len(keys) :
                 /\ keys[i] \in DOMAIN reg /\ reg[keys[i]] # Undefined /\ unref(reg[keys[i]])
                 /\ \A j \in 1..(i-1) :
                        ~(keys[j] \in DOMAIN reg /\ reg[keys[j]] # Undefined /\ unref(reg[keys[j]]))]
    ELSE EmptyString

\* keysToCheck.find(key => key in hotkeys) ?? ""
FindKey(reg, keys) ==
    IF \E i \in 1..Len(keys) : keys[i] \in DOMAIN reg
    THEN keys[CHOOSE i \in 1..Len(keys) :
                 /\ keys[i] \in DOMAIN reg
                 /\ \A j \in 1..(i-1) : keys[j] \notin DOMAIN reg]
    ELSE EmptyString

\* hotkeys[...]: reading a property that is not there gives undefined
Lookup(reg, key) == IF key \in DOMAIN reg THEN reg[key] ELSE Undefined

\* variant: only TEXTAREA targets are let through to normal typing
InputGateTextarea(ev) == ev.target = "TEXTAREA"
\* lines 96-98: the first early return
InputGate(ev) == ev.target = "INPUT"

\* variant: the player's preference is not consulted
WinGateIgnoresKeepGoing == hasWon
\* lines 99-101: the second early return
WinGate == hasWon /\ ~keepGoing

(***************************************************************************)
(* History                                                                 *)
(***************************************************************************)
\* drop the entries of `layer` from the notification history
RECURSIVE WithoutLayer(_, _)
WithoutLayer(s, layer) ==
    IF s = << >> THEN << >>
    ELSE IF s[1].layer = layer THEN WithoutLayer(Tail(s), layer)
    ELSE <<s[1]>> \o WithoutLayer(Tail(s), layer)

Note(op, layer) == Append(WithoutLayer(notes, layer), [op |-> op, layer |-> layer])

(***************************************************************************)
(* Initial state and actions                                               *)
(***************************************************************************)
Init ==
    /\ hotkeys = << >>
    /\ cond = [h \in ComputedIds |-> TRUE]
    /\ hasWon = FALSE
    /\ keepGoing = FALSE
    /\ handling = FALSE
    /\ e = NoEvent
    /\ hotkey = Undefined
    /\ onPressCalls = << >>
    /\ preventDefaultCalls = 0
    /\ notes = << >>
    /\ gatedPress = FALSE
    /\ fired = {}
    /\ built = {}
    /\ optionsCalls = CreatedCalls
    /\ accessed = {}
    /\ reading = Undefined
    /\ readValue = FALSE

\* no key-down is being handled
Idle ==
    /\ handling' = FALSE
    /\ e' = NoEvent
    /\ hotkey' = Undefined
    /\ onPressCalls' = << >>
    /\ preventDefaultCalls' = 0

\* no `enabled` is being read outside a key-down
NoRead ==
    /\ reading' = Undefined
    /\ readValue' = FALSE

\* the effect on the lazy proxies of reading fields of the hotkeys in feats
ReadFields(feats) ==
    LET st == AccessFrom([built |-> built, calls |-> optionsCalls], feats, 1)
    IN  /\ built' = st.built
        /\ optionsCalls' = st.calls
        /\ accessed' = accessed \cup { feats[i] : i \in 1..Len(feats) }

\* globalBus.on("addLayer"), lines 83-87
AddLayer(layer) ==
    /\ hotkeys' = RegisterFrom(hotkeys, findFeatures(layer), 1)
    /\ ReadFields(findFeatures(layer))
    /\ notes' = Note("add", layer)
    /\ gatedPress' = FALSE
    /\ Idle
    /\ NoRead
    /\ UNCHANGED <<cond, hasWon, keepGoing, fired>>

\* globalBus.on("removeLayer"), lines 89-93
RemoveLayer(layer) ==
    /\ hotkeys' = ClearFrom(hotkeys, findFeatures(layer), 1)
    /\ ReadFields(findFeatures(layer))
    /\ notes' = Note("remove", layer)
    /\ gatedPress' = FALSE
    /\ Idle
    /\ NoRead
    /\ UNCHANGED <<cond, hasWon, keepGoing, fired>>

\* line 126: hotkey && unref(hotkey.enabled)
ShouldDispatch(found) == found # Undefined /\ unref(found)
\* variant: the default action is suppressed as soon as a hotkey is found
PreventDefaultsWhenFound(found) == IF found # Undefined THEN 1 ELSE 0
\* line 127: e.preventDefault()
PreventDefaults(found) == IF ShouldDispatch(found) THEN 1 ELSE 0
\* line 128: hotkey.onPress()
OnPresses(found) == IF ShouldDispatch(found) THEN << found >> ELSE << >>

\* document.onkeydown, lines 95-130
KeyDown(ev) ==
    /\ handling' = TRUE
    /\ e' = ev
    /\ IF InputGate(ev) \/ WinGate
       THEN /\ hotkey' = Undefined
            /\ onPressCalls' = << >>
            /\ preventDefaultCalls' = 0
            /\ UNCHANGED lazyVars
       ELSE LET found == Lookup(hotkeys, FindKey(hotkeys, keysToCheck(ev)))
            IN  /\ hotkey' = found
                /\ preventDefaultCalls' = PreventDefaults(found)
                /\ onPressCalls' = OnPresses(found)
                /\ IF found # Undefined
                   THEN ReadFields(<< found >>)
                   ELSE UNCHANGED lazyVars
    /\ NoRead
    /\ gatedPress' = IF ~InputGate(ev) /\ WinGate THEN TRUE ELSE gatedPress
    /\ fired' = fired \cup ({ onPressCalls'[i] : i \in 1..Len(onPressCalls') } \cap ComputedIds)
    /\ UNCHANGED <<hotkeys, cond, hasWon, keepGoing, notes>>

\* outside state changes: the condition a computed `enabled` reads
SetCond(h, b) ==
    /\ cond[h] # b
    /\ cond' = [cond EXCEPT ![h] = b]
    /\ Idle
    /\ NoRead
    /\ UNCHANGED <<hotkeys, hasWon, keepGoing, notes, gatedPress, fired, lazyVars>>

\* outside state changes: the game is won (hasWon is a read-only signal here)
SetHasWon(b) ==
    /\ hasWon # b
    /\ hasWon' = b
    /\ Idle
    /\ NoRead
    /\ UNCHANGED <<hotkeys, cond, keepGoing, notes, gatedPress, fired, lazyVars>>

\* outside state changes: the player's continue-past-win preference
SetKeepGoing(b) ==
    /\ keepGoing # b
    /\ keepGoing' = b
    /\ Idle
    /\ NoRead
    /\ UNCHANGED <<hotkeys, cond, hasWon, notes, gatedPress, fired, lazyVars>>

\* code outside the handlers reads hotkey.enabled: unref(hotkey.enabled)
ReadEnabled(h) ==
    /\ ReadFields(<< h >>)
    /\ reading' = h
    /\ readValue' = unref(h)
    /\ Idle
    /\ UNCHANGED <<hotkeys, cond, hasWon, keepGoing, notes, gatedPress, fired>>

Next ==
    \/ \E layer \in Layers : AddLayer(layer)
    \/ \E layer \in Layers : RemoveLayer(layer)
    \/ \E ev \in Events : KeyDown(ev)
    \/ \E h \in ComputedIds, b \in BOOLEAN : SetCond(h, b)
    \/ \E b \in BOOLEAN : SetHasWon(b)
    \/ \E b \in BOOLEAN : SetKeepGoing(b)

Spec == Init /\ [][Next]_vars

\* the resolver model: the registry changes with the layers and key-downs are
\* drawn from ResolverEvents; the outside state keeps its initial value
NextResolver ==
    \/ \E layer \in Layers : AddLayer(layer)
    \/ \E layer \in Layers : RemoveLayer(layer)
    \/ \E ev \in ResolverEvents : KeyDown(ev)

SpecResolver == Init /\ [][NextResolver]_vars

\* the lazy-construction model: layers come and go, "a" is pressed, the
\* computed conditions change, and `enabled` of a few hotkeys is also read
\* directly, before or after their layer is added
LazyEvents == { ev \in EventsOver({ <<"a">> }) : ev.target = "BODY" }
LazyReads == {"mA", "pA", "cSB"}

NextLazy ==
    \/ \E layer \in Layers : AddLayer(layer)
    \/ \E layer \in Layers : RemoveLayer(layer)
    \/ \E ev \in LazyEvents : KeyDown(ev)
    \/ \E h \in LazyReads : ReadEnabled(h)
    \/ \E h \in ComputedIds, b \in BOOLEAN : SetCond(h, b)

SpecLazy == Init /\ [][NextLazy]_vars

(***************************************************************************)
(* Vocabulary of the properties                                            *)
(***************************************************************************)
Range(s) == { s[i] : i \in 1..Len(s) }

\* the hotkeys of a layer that carry key k, by position in the layer
PositionsOf(layer, k) ==
    { i \in 1..Len(findFeatures(layer)) : HotkeyOptions[findFeatures(layer)[i]].key = k }
Contributes(layer, k) == PositionsOf(layer, k) # {}
\* the definition a layer leaves under k: its last hotkey with that key
DefinitionOf(layer, k) ==
    findFeatures(layer)[CHOOSE i \in PositionsOf(layer, k) :
                            \A j \in PositionsOf(layer, k) : j <= i]

\* every key string some layer contributes or some key-down probes
AllKeys ==
    { HotkeyOptions[h].key : h \in HotkeyIds }
    \cup UNION { Range(keysToCheck(ev)) : ev \in Events \cup ResolverEvents }

\* positions in the history of the notifications of layers contributing k
NotesOn(k) == { i \in 1..Len(notes) : Contributes(notes[i].layer, k) }
Latest(S) == CHOOSE i \in S : \A j \in S : j <= i
\* the latest notification of a layer contributing k is a removeLayer
RemovedLast(k) == NotesOn(k) # {} /\ notes[Latest(NotesOn(k))].op = "remove"

\* the last key-down passed both early returns (lines 96-101)
Ungated == handling /\ e.target # "INPUT" /\ ~(hasWon /\ ~keepGoing)
NothingDispatched == onPressCalls = << >> /\ preventDefaultCalls = 0

\* the `enabled` of hotkey h as its options give it at this instant
EnabledNow(h) ==
    CASE HotkeyOptions[h].enabled = "omitted"  -> TRUE
      [] HotkeyOptions[h].enabled = "true"     -> TRUE
      [] HotkeyOptions[h].enabled = "false"    -> FALSE
      [] HotkeyOptions[h].enabled = "function" -> cond[h]

\* k is the first candidate of the event that is a property of the registry
ResolvesTo(ev, k) ==
    \E i \in 1..Len(keysToCheck(ev)) :
        /\ keysToCheck(ev)[i] = k
        /\ k \in DOMAIN hotkeys
        /\ \A j \in 1..(i-1) : keysToCheck(ev)[j] \notin DOMAIN hotkeys

(***************************************************************************)
(* C1: once the latest notification of a layer contributing key k is a     *)
(* removeLayer, the registry entry of k is cleared (present, undefined)    *)
(* and an ungated key-down whose only candidate is k invokes no onPress    *)
(* and no preventDefault; this holds for as long as no addLayer of a layer *)
(* contributing k follows, whichever other layers are still loaded.        *)
(***************************************************************************)
C1_RemovedKeyStaysCleared ==
    \A k \in AllKeys :
        RemovedLast(k) =>
            /\ k \in DOMAIN hotkeys
            /\ hotkeys[k] = Undefined
            /\ (Ungated /\ keysToCheck(e) = << k >>) => NothingDispatched

\* "a" was removed with main while prestige, which also contributes "a" and
\* was added before, is still loaded; "a" is then pressed
C1_Witness ==
    /\ Ungated
    /\ keysToCheck(e) = << <<"a">> >>
    /\ RemovedLast(<<"a">>)
    /\ \E i, j \in 1..Len(notes) :
           /\ i < j
           /\ notes[i] = [op |-> "add", layer |-> "prestige"]
           /\ notes[j] = [op |-> "remove", layer |-> "main"]

(***************************************************************************)
(* C2: when two different layers contributing key k were added, the later  *)
(* one being the latest notification on k, and no removeLayer of a layer   *)
(* contributing k came after the earlier addLayer, an ungated key-down     *)
(* resolving to k looks up the later layer's hotkey, invokes its onPress   *)
(* (when its enabled is true) and never the earlier layer's.               *)
(***************************************************************************)
LastWriteWinsCase(k, i, j) ==
    /\ i < j
    /\ j = Latest(NotesOn(k))
    /\ notes[i].op = "add"
    /\ \A m \in NotesOn(k) : m > i => notes[m].op = "add"

C2_LastWriteWins ==
    \A k \in AllKeys : \A i, j \in NotesOn(k) :
        (LastWriteWinsCase(k, i, j) /\ Ungated /\ ResolvesTo(e, k)) =>
            LET later == DefinitionOf(notes[j].layer, k)
            IN  /\ hotkey = later
                /\ unref(later) => onPressCalls = << later >>
                /\ \A p \in PositionsOf(notes[i].layer, k) :
                       findFeatures(notes[i].layer)[p] \notin Range(onPressCalls)

\* main was added after prestige and "a" is pressed: main's hotkey fires
C2_Witness ==
    /\ Ungated
    /\ \E i, j \in NotesOn(<<"a">>) :
           /\ LastWriteWinsCase(<<"a">>, i, j)
           /\ notes[i].layer = "prestige"
           /\ notes[j].layer = "main"
    /\ ResolvesTo(e, <<"a">>)
    /\ onPressCalls = << "mA" >>

(***************************************************************************)
(* C3: for every key string k the registry entry is absent when no layer   *)
(* contributing k was ever notified; it holds exactly the definition of    *)
(* the most recent addLayer of a layer contributing k when no such layer   *)
(* was removed since; and it is cleared when one was.                      *)
(***************************************************************************)
C3_RegistryMatchesHistory ==
    \A k \in AllKeys :
        IF NotesOn(k) = {} THEN k \notin DOMAIN hotkeys
        ELSE LET n == notes[Latest(NotesOn(k))]
             IN  /\ k \in DOMAIN hotkeys
                 /\ hotkeys[k] = IF n.op = "add"
                                 THEN DefinitionOf(n.layer, k) ELSE Undefined

\* "a" holds prestige's definition written over main's, "shift+!" was cleared
\* with combo and "q" was never written
C3_Witness ==
    /\ \E i, j \in NotesOn(<<"a">>) :
           /\ LastWriteWinsCase(<<"a">>, i, j)
           /\ notes[i].layer = "main"
    /\ hotkeys[<<"a">>] = "pA"
    /\ RemovedLast(ShiftPlus \o <<"!">>)
    /\ <<"q">> \notin DOMAIN hotkeys

(***************************************************************************)
(* C4: a key-down all of whose candidates are key strings that no layer    *)
(* notification ever touched invokes no onPress and no preventDefault,     *)
(* whatever else the registry contains.                                    *)
(***************************************************************************)
NeverRegistered(ev) == \A k \in Range(keysToCheck(ev)) : NotesOn(k) = {}

C4_UnregisteredKeyIsNoOp ==
    (handling /\ NeverRegistered(e)) => NothingDispatched

(***************************************************************************)
(* C5: a key-down invokes at most one onPress; a matched key-down (not     *)
(* gated, the first present candidate holds a definition whose enabled is  *)
(* true) invokes that definition's onPress exactly once; preventDefault is *)
(* called (once) exactly when an onPress is invoked.                       *)
(***************************************************************************)
Matched(k) ==
    /\ Ungated
    /\ ResolvesTo(e, k)
    /\ hotkeys[k] # Undefined
    /\ EnabledNow(hotkeys[k])

C5_ExactlyOneDispatch ==
    handling =>
        /\ Len(onPressCalls) <= 1
        /\ \A k \in AllKeys : Matched(k) => onPressCalls = << hotkeys[k] >>
        /\ preventDefaultCalls \in {0, 1}
        /\ (preventDefaultCalls = 1) <=> (Len(onPressCalls) = 1)

\* shift+"!" with "!" registered and enabled: one onPress, one preventDefault
C5_Witness ==
    /\ Matched(<<"!">>)
    /\ e.shiftKey
    /\ onPressCalls = << "pB" >>
    /\ preventDefaultCalls = 1

(***************************************************************************)
(* C6: while hasWon is true and keepGoing is false a key-down invokes no   *)
(* onPress and no preventDefault, whatever the registry holds; once        *)
(* keepGoing is true, with no addLayer/removeLayer since the suppressed    *)
(* key-down, a key-down matching a registered enabled hotkey dispatches it.*)
(***************************************************************************)
C6_WinGateSuspendsUntilKeepGoing ==
    /\ (handling /\ hasWon /\ ~keepGoing) => NothingDispatched
    /\ (handling /\ gatedPress /\ keepGoing /\ e.target # "INPUT") =>
           \A k \in AllKeys :
               (ResolvesTo(e, k) /\ hotkeys[k] # Undefined /\ EnabledNow(hotkeys[k]))
                   => (onPressCalls = << hotkeys[k] >> /\ preventDefaultCalls = 1)

\* "a" was suppressed after the win; the player chose to keep going and "a"
\* fires without any layer notification in between
C6_Witness ==
    /\ handling
    /\ gatedPress
    /\ hasWon
    /\ keepGoing
    /\ e.key = <<"a">>
    /\ onPressCalls = << "mA" >>
    /\ preventDefaultCalls = 1

(***************************************************************************)
(* C7: an ungated key-down that looks a hotkey up invokes its onPress if   *)
(* and only if its enabled is true at that key-down, whatever value it had *)
(* at earlier key-downs.                                                   *)
(***************************************************************************)
C7_EnabledIsCurrent ==
    (Ungated /\ hotkey # Undefined) =>
        /\ EnabledNow(hotkey) => (onPressCalls = << hotkey >> /\ preventDefaultCalls = 1)
        /\ ~EnabledNow(hotkey) => NothingDispatched

\* prestige's "a" fired at an earlier key-down while its condition held; the
\* condition is now false and the key-down invokes nothing
C7_Witness ==
    /\ Ungated
    /\ hotkey = "pA"
    /\ "pA" \in fired
    /\ ~cond["pA"]
    /\ NothingDispatched

(***************************************************************************)
(* C8: a key-down whose target is an INPUT element invokes no onPress and  *)
(* no preventDefault, for every registry, modifier state, won flag and     *)
(* keepGoing value.                                                        *)
(***************************************************************************)
C8_InputTargetIgnored ==
    (handling /\ e.target = "INPUT") => NothingDispatched

\* ctrl+"a" typed into an input while "ctrl+a" holds an enabled hotkey and
\* the game is won with keepGoing set
C8_Witness ==
    /\ handling
    /\ e.target = "INPUT"
    /\ e.ctrlKey /\ ~e.shiftKey
    /\ hasWon /\ keepGoing
    /\ ResolvesTo(e, CtrlPlus \o <<"a">>)
    /\ hotkeys[CtrlPlus \o <<"a">>] = "pCa2"
    /\ NothingDispatched

(***************************************************************************)
(* Vocabulary of the resolver properties                                   *)
(***************************************************************************)
\* the digit whose key types each shifted-digit symbol
ShiftedDigit ==
    ( <<")">> :> <<"0">> ) @@ ( <<"!">> :> <<"1">> ) @@ ( <<"@">> :> <<"2">> ) @@
    ( <<"#">> :> <<"3">> ) @@ ( <<"$">> :> <<"4">> ) @@ ( <<"%">> :> <<"5">> ) @@
    ( <<"^">> :> <<"6">> ) @@ ( <<"&">> :> <<"7">> ) @@ ( <<"*">> :> <<"8">> ) @@
    ( <<"(">> :> <<"9">> )

\* the last key-down looked up the entry of the first candidate of `expected`
\* that is a property of the registry, and dispatched it when it holds an
\* enabled definition
FirstPresentDecides(expected) ==
    \A i \in 1..Len(expected) :
        (/\ expected[i] \in DOMAIN hotkeys
         /\ \A j \in 1..(i-1) : expected[j] \notin DOMAIN hotkeys) =>
            /\ hotkey = hotkeys[expected[i]]
            /\ IF hotkey # Undefined /\ EnabledNow(hotkey)
               THEN onPressCalls = << hotkey >> /\ preventDefaultCalls = 1
               ELSE NothingDispatched

(***************************************************************************)
(* C9: with shift and ctrl both held the literal key is not a candidate    *)
(* and the candidates are "ctrl+shift+"+upper(key), "shift+ctrl+"+upper(   *)
(* key), then "ctrl+shift+"+d and "shift+ctrl+"+d for a shifted-digit      *)
(* symbol with digit d, otherwise "ctrl+shift+"+lower(key) and             *)
(* "shift+ctrl+"+lower(key); the hotkey looked up is the entry of the      *)
(* first of these that is in the registry.                                 *)
(***************************************************************************)
ShiftCtrlCandidates(key) ==
    IF key \in DOMAIN ShiftedDigit
    THEN << CtrlShiftPlus \o toUpperCase(key), ShiftCtrlPlus \o toUpperCase(key),
            CtrlShiftPlus \o ShiftedDigit[key], ShiftCtrlPlus \o ShiftedDigit[key] >>
    ELSE << CtrlShiftPlus \o toUpperCase(key), ShiftCtrlPlus \o toUpperCase(key),
            CtrlShiftPlus \o toLowerCase(key), ShiftCtrlPlus \o toLowerCase(key) >>

C9_ShiftCtrlCandidates ==
    (handling /\ e.shiftKey /\ e.ctrlKey) =>
        /\ keysToCheck(e) = ShiftCtrlCandidates(e.key)
        /\ e.key \notin Range(keysToCheck(e))
        /\ Ungated => FirstPresentDecides(ShiftCtrlCandidates(e.key))

\* ctrl+shift+"a" with "shift+ctrl+A" and "ctrl+shift+a" registered and
\* "ctrl+shift+A" not: the second candidate decides
C9_Witness ==
    /\ Ungated
    /\ e.shiftKey /\ e.ctrlKey
    /\ e.key = <<"a">>
    /\ (CtrlShiftPlus \o <<"A">>) \notin DOMAIN hotkeys
    /\ (CtrlShiftPlus \o <<"a">>) \in DOMAIN hotkeys
    /\ hotkeys[CtrlShiftPlus \o <<"a">>] = "mCSa"
    /\ onPressCalls = << "pSCA" >>

(***************************************************************************)
(* C10: for a shifted-digit symbol key with shift and ctrl not both held   *)
(* (ctrl alone and no modifier included) the candidates are the literal    *)
(* symbol, "shift+"+symbol, "shift+"+digit, digit being the symbol's       *)
(* position in ) ! @ # $ % ^ & * ( ; the first of them in the registry     *)
(* decides, so "!" dispatches the hotkey under "shift+1" when that is the  *)
(* only one of the three that was registered, and the hotkey under "!"     *)
(* when "!" holds one.                                                     *)
(***************************************************************************)
SymbolCandidates(key) ==
    << key, ShiftPlus \o key, ShiftPlus \o ShiftedDigit[key] >>

C10_SymbolCandidates ==
    (handling /\ e.key \in DOMAIN ShiftedDigit /\ ~(e.shiftKey /\ e.ctrlKey)) =>
        /\ keysToCheck(e) = SymbolCandidates(e.key)
        /\ Ungated => FirstPresentDecides(SymbolCandidates(e.key))
        /\ (/\ Ungated
            /\ e.key = <<"!">>
            /\ DOMAIN hotkeys \cap Range(SymbolCandidates(e.key)) = {ShiftPlus \o <<"1">>}
            /\ hotkeys[ShiftPlus \o <<"1">>] # Undefined
            /\ EnabledNow(hotkeys[ShiftPlus \o <<"1">>]))
               => onPressCalls = << hotkeys[ShiftPlus \o <<"1">>] >>
        /\ (/\ Ungated
            /\ e.key = <<"!">>
            /\ <<"!">> \in DOMAIN hotkeys
            /\ hotkeys[<<"!">>] # Undefined
            /\ EnabledNow(hotkeys[<<"!">>]))
               => onPressCalls = << hotkeys[<<"!">>] >>

\* ctrl+"!" with "shift+1" the only candidate ever registered
C10_Witness ==
    /\ Ungated
    /\ e.key = <<"!">>
    /\ e.ctrlKey /\ ~e.shiftKey
    /\ DOMAIN hotkeys \cap Range(SymbolCandidates(e.key)) = {ShiftPlus \o <<"1">>}
    /\ onPressCalls = << "mS1" >>

(***************************************************************************)
(* C11: with a hotkey registered under key "A", an ungated key-down of     *)
(* key "a" with shift held and ctrl not held matches that hotkey, via the  *)
(* candidate "shift+A", which is probed before "shift+a".                  *)
(***************************************************************************)
ShiftOnly(key) == handling /\ e.key = key /\ e.shiftKey /\ ~e.ctrlKey

\* the claim as stated: the hotkey under the bare key "A" is the one matched
C11_BareUpperKeyMatches ==
    (/\ Ungated
     /\ ShiftOnly(<<"a">>)
     /\ <<"A">> \in DOMAIN hotkeys
     /\ hotkeys[<<"A">>] # Undefined) => hotkey = hotkeys[<<"A">>]

\* amended: the candidates of that key-down are "a", "shift+A", "shift+a" in
\* this order and the bare "A" is not one of them; a hotkey registered under
\* "shift+A" is the one matched, and dispatched when enabled, whenever the
\* literal "a" is not in the registry, whatever "shift+a" holds
C11_ShiftUpperBeforeShiftLower ==
    ShiftOnly(<<"a">>) =>
        /\ keysToCheck(e) = << <<"a">>, ShiftPlus \o <<"A">>, ShiftPlus \o <<"a">> >>
        /\ <<"A">> \notin Range(keysToCheck(e))
        /\ (/\ Ungated
            /\ <<"a">> \notin DOMAIN hotkeys
            /\ (ShiftPlus \o <<"A">>) \in DOMAIN hotkeys
            /\ hotkeys[ShiftPlus \o <<"A">>] # Undefined) =>
               /\ hotkey = hotkeys[ShiftPlus \o <<"A">>]
               /\ EnabledNow(hotkey) => onPressCalls = << hotkey >>

\* shift+"a" while both "A" and "shift+A" hold a hotkey and "a" does not:
\* the hotkey under "shift+A" fires, not the one under "A"
C11_Witness ==
    /\ Ungated
    /\ ShiftOnly(<<"a">>)
    /\ <<"a">> \notin DOMAIN hotkeys
    /\ <<"A">> \in DOMAIN hotkeys
    /\ hotkeys[<<"A">>] = "cUA"
    /\ onPressCalls = << "cSA" >>

(***************************************************************************)
(* C12: for every key-down with ctrl held and shift not held the literal   *)
(* key is not a candidate, so a hotkey registered under the bare key does  *)
(* not fire, and the only candidate is "ctrl+"+key with the key exactly as *)
(* delivered.                                                              *)
(***************************************************************************)
CtrlOnly == handling /\ e.ctrlKey /\ ~e.shiftKey

CtrlOnlyProbesCtrlKey ==
    /\ keysToCheck(e) = << CtrlPlus \o e.key >>
    /\ \A h \in Range(onPressCalls) : HotkeyOptions[h].key # e.key

\* the claim as stated, for every key
C12_CtrlOnlyAnyKey == CtrlOnly => CtrlOnlyProbesCtrlKey

\* amended: for every key that is not one of the ten shifted-digit symbols
\* (for those the symbol branch comes first: the literal symbol, "shift+"+
\* symbol and "shift+"+digit are probed and "ctrl+"+symbol is not)
C12_CtrlOnlyNonSymbol ==
    CtrlOnly =>
        IF e.key \in DOMAIN ShiftedDigit
        THEN /\ keysToCheck(e) = SymbolCandidates(e.key)
             /\ (CtrlPlus \o e.key) \notin Range(keysToCheck(e))
        ELSE CtrlOnlyProbesCtrlKey

\* ctrl+"a" while "a" holds an enabled hotkey and "ctrl+a" was never
\* registered: nothing is dispatched
C12_Witness ==
    /\ Ungated
    /\ CtrlOnly
    /\ e.key = <<"a">>
    /\ <<"a">> \in DOMAIN hotkeys
    /\ hotkeys[<<"a">>] = "mA"
    /\ (CtrlPlus \o <<"a">>) \notin DOMAIN hotkeys
    /\ NothingDispatched

(***************************************************************************)
(* C13: the options function of a hotkey is not invoked before the first   *)
(* read of one of its fields, and over any sequence of field reads,        *)
(* addLayer/removeLayer notifications and key-downs it is invoked at most  *)
(* once, while `enabled` is evaluated anew at each read (`description`     *)
(* goes through the same processComputable wrapper and is not modelled     *)
(* apart).                                                                 *)
(***************************************************************************)
C13_LazyOnceAndReevaluated ==
    /\ \A h \in HotkeyIds :
          /\ h \notin accessed => optionsCalls[h] = 0
          /\ optionsCalls[h] <= 1
    /\ reading # Undefined => readValue = EnabledNow(reading)

\* prestige's "a" was read through addLayer, a key-down that fired it and a
\* direct read that now returns false; its options function ran once, and
\* the one of combo's never-read "" hotkey did not run
C13_Witness ==
    /\ reading = "pA"
    /\ readValue = FALSE
    /\ "pA" \in fired
    /\ \E i \in 1..Len(notes) : notes[i] = [op |-> "add", layer |-> "prestige"]
    /\ optionsCalls["pA"] = 1
    /\ "cE" \notin accessed
    /\ optionsCalls["cE"] = 0

(***************************************************************************)
(* C14: a hotkey whose options omit `enabled` has enabled = true after     *)
(* construction, so every ungated key-down whose first present candidate   *)
(* is its key invokes its onPress; an `enabled` that was supplied, as a    *)
(* value or as a computation, is not replaced by the default.              *)
(***************************************************************************)
C14_EnabledDefaultsToTrue ==
    /\ \A h \in HotkeyIds :
          createHotkey(h).enabled =
              CASE HotkeyOptions[h].enabled = "omitted"  -> "true"
                [] HotkeyOptions[h].enabled = "true"     -> "true"
                [] HotkeyOptions[h].enabled = "false"    -> "false"
                [] HotkeyOptions[h].enabled = "function" -> "computed"
    /\ \A k \in AllKeys :
          (Ungated /\ ResolvesTo(e, k) /\ hotkeys[k] # Undefined) =>
              CASE HotkeyOptions[hotkeys[k]].enabled = "omitted" ->
                       onPressCalls = << hotkeys[k] >>
                [] HotkeyOptions[hotkeys[k]].enabled = "false" ->
                       NothingDispatched
                [] HotkeyOptions[hotkeys[k]].enabled = "function" ->
                       (onPressCalls = << hotkeys[k] >>) <=> cond[hotkeys[k]]
                [] OTHER -> onPressCalls = << hotkeys[k] >>

\* shift+"!" resolves to "shift+1", whose hotkey omits `enabled`, and fires
C14_Witness ==
    /\ Ungated
    /\ e.key = <<"!">> /\ e.shiftKey /\ ~e.ctrlKey
    /\ ResolvesTo(e, ShiftPlus \o <<"1">>)
    /\ HotkeyOptions["mS1"].enabled = "omitted"
    /\ onPressCalls = << "mS1" >>

(***************************************************************************)
(* C15: a registry entry cleared by removeLayer is, for dispatch, as if    *)
(* the key had never been registered; in particular a cleared earlier      *)
(* candidate does not stop a later candidate that holds a definition from  *)
(* being the one matched.                                                  *)
(***************************************************************************)
HoldsDefinition(k) == k \in DOMAIN hotkeys /\ hotkeys[k] # Undefined

C15_ClearedEntryDoesNotBlock ==
    Ungated =>
        \A i \in 1..Len(keysToCheck(e)) :
            (/\ HoldsDefinition(keysToCheck(e)[i])
             /\ \A j \in 1..(i-1) : ~HoldsDefinition(keysToCheck(e)[j])) =>
                /\ hotkey = hotkeys[keysToCheck(e)[i]]
                /\ EnabledNow(hotkey) => onPressCalls = << hotkey >>

(***************************************************************************)
(* C16: whenever two candidates of a key-down both hold a definition and   *)
(* differ only in that one contains the key exactly as delivered and the   *)
(* other a case-normalized or digit-substituted form of it, the hotkey of  *)
(* the exactly-delivered form is preferred: the other form's hotkey is not *)
(* the one dispatched.  In every resolver branch.                          *)
(***************************************************************************)
Prefixes == {ShiftPlus, CtrlShiftPlus, ShiftCtrlPlus}

\* the normalized forms of a key that differ from the key itself
Aliases(key) ==
    ({toUpperCase(key), toLowerCase(key)}
     \cup (IF key \in DOMAIN ShiftedDigit THEN {ShiftedDigit[key]} ELSE {}))
    \ {key}

\* <<exact, alias>>: two candidates of the event with the same prefix
AliasPairs(ev) ==
    { pr \in { << p \o ev.key, p \o n >> : p \in Prefixes, n \in Aliases(ev.key) } :
        pr[1] \in Range(keysToCheck(ev)) /\ pr[2] \in Range(keysToCheck(ev)) }

PositionIn(seq, x) == CHOOSE i \in 1..Len(seq) : seq[i] = x

\* the claim as stated, for every delivered key
C16_ExactFormPreferred ==
    Ungated =>
        \A pr \in AliasPairs(e) :
            (HoldsDefinition(pr[1]) /\ HoldsDefinition(pr[2])) =>
                hotkeys[pr[2]] \notin Range(onPressCalls)

\* amended: the exactly-delivered form is probed first, and its alias is not
\* dispatched, when the delivered key is its own upper-casing; otherwise the
\* upper-cased alias is probed first and the exactly-delivered form's hotkey
\* is the one that is not dispatched
C16_UpperFormThenDeliveredForm ==
    handling =>
        \A pr \in AliasPairs(e) :
            LET first == IF e.key = toUpperCase(e.key) THEN pr[1] ELSE pr[2]
                second == IF e.key = toUpperCase(e.key) THEN pr[2] ELSE pr[1]
            IN  /\ PositionIn(keysToCheck(e), first) < PositionIn(keysToCheck(e), second)
                /\ (Ungated /\ HoldsDefinition(first) /\ HoldsDefinition(second)) =>
                       hotkeys[second] \notin Range(onPressCalls)

\* ctrl+shift+"A" with "ctrl+shift+A" and "ctrl+shift+a" both registered:
\* the hotkey of the delivered form fires
C16_Witness ==
    /\ Ungated
    /\ e.key = <<"A">> /\ e.shiftKey /\ e.ctrlKey
    /\ << CtrlShiftPlus \o <<"A">>, CtrlShiftPlus \o <<"a">> >> \in AliasPairs(e)
    /\ HoldsDefinition(CtrlShiftPlus \o <<"A">>)
    /\ HoldsDefinition(CtrlShiftPlus \o <<"a">>)
    /\ onPressCalls = << "cCSA" >>

(***************************************************************************)
(* C17: with shift held, ctrl not held and a key that is not a shifted-    *)
(* digit symbol, the candidates are the literal key, "shift+"+upper(key),  *)
(* "shift+"+lower(key) in this order; the hotkey dispatched is the one     *)
(* under the first of them present in the registry, so a hotkey registered *)
(* under the literal key wins over both shift+ aliases.                    *)
(***************************************************************************)
ShiftOnlyCandidates(key) ==
    << key, ShiftPlus \o toUpperCase(key), ShiftPlus \o toLowerCase(key) >>

C17_ShiftOnlyCandidates ==
    (handling /\ e.shiftKey /\ ~e.ctrlKey /\ e.key \notin DOMAIN ShiftedDigit) =>
        /\ keysToCheck(e) = ShiftOnlyCandidates(e.key)
        /\ Ungated => FirstPresentDecides(ShiftOnlyCandidates(e.key))
        /\ (Ungated /\ HoldsDefinition(e.key) /\ EnabledNow(hotkeys[e.key])) =>
               onPressCalls = << hotkeys[e.key] >>

\* shift+"A" with "A", "shift+A" and "shift+a" all registered: the hotkey
\* under the literal "A" fires
C17_Witness ==
    /\ Ungated
    /\ ShiftOnly(<<"A">>)
    /\ HoldsDefinition(<<"A">>)
    /\ HoldsDefinition(ShiftPlus \o <<"A">>)
    /\ HoldsDefinition(ShiftPlus \o <<"a">>)
    /\ onPressCalls = << "cUA" >>

(***************************************************************************)
(* C18: only the first candidate present in the registry is considered: if *)
(* that hotkey's enabled is false at the key-down, no onPress is invoked   *)
(* and preventDefault is not called, even when a later candidate of the    *)
(* same key-down is registered and enabled.                                *)
(***************************************************************************)
C18_OnlyFirstPresentConsidered ==
    Ungated =>
        \A k \in AllKeys :
            ResolvesTo(e, k) =>
                /\ hotkey = hotkeys[k]
                /\ Range(onPressCalls) \subseteq {hotkeys[k]}
                /\ (hotkeys[k] # Undefined /\ ~EnabledNow(hotkeys[k])) =>
                       NothingDispatched

\* a later candidate of the event holds an enabled definition
LaterCandidateEnabled(ev, k) ==
    \E i, j \in 1..Len(keysToCheck(ev)) :
        /\ i < j
        /\ keysToCheck(ev)[i] = k
        /\ HoldsDefinition(keysToCheck(ev)[j])
        /\ EnabledNow(hotkeys[keysToCheck(ev)[j]])

\* shift+"!" with "!" absent, the disabled "shift+!" first present and the
\* enabled "shift+1" after it: nothing is dispatched
C18_Witness ==
    /\ Ungated
    /\ ResolvesTo(e, ShiftPlus \o <<"!">>)
    /\ hotkeys[ShiftPlus \o <<"!">>] = "cSB"
    /\ ~EnabledNow("cSB")
    /\ LaterCandidateEnabled(e, ShiftPlus \o <<"!">>)
    /\ NothingDispatched

(***************************************************************************)
(* C19: whenever a key-down dispatches a hotkey, that hotkey's key string  *)
(* is one of the candidates the resolver produced for the event, in every  *)
(* reachable state in which no hotkey is registered under the empty        *)
(* string.                                                                 *)
(***************************************************************************)
C19_DispatchedKeyIsCandidate ==
    (handling /\ ~HoldsDefinition(EmptyString)) =>
        \A h \in Range(onPressCalls) :
            HotkeyOptions[h].key \in Range(keysToCheck(e))

\* ctrl+shift+"!" dispatches the hotkey under "shift+ctrl+!", the second
\* candidate, while the empty-string key is not in the registry
C19_Witness ==
    /\ Ungated
    /\ EmptyString \notin DOMAIN hotkeys
    /\ e.key = <<"!">> /\ e.shiftKey /\ e.ctrlKey
    /\ keysToCheck(e)[2] = HotkeyOptions["mSCb"].key
    /\ onPressCalls = << "mSCb" >>

(***************************************************************************)
(* C20: the registry is changed only by the addLayer and removeLayer       *)
(* handlers: a key-down, gated, unmatched or matched, leaves every entry   *)
(* unchanged, and addLayer/removeLayer of a layer change only the entries  *)
(* of the keys that layer contributes.                                     *)
(***************************************************************************)
EntryChanged(k) ==
    \/ (k \in DOMAIN hotkeys) # (k \in DOMAIN hotkeys')
    \/ Lookup(hotkeys, k) # Lookup(hotkeys', k)

C20_RegistryFrame ==
    [][ /\ handling' => hotkeys' = hotkeys
        /\ \A k \in AllKeys :
               EntryChanged(k) =>
                   \E layer \in Layers, op \in {"add", "remove"} :
                       /\ notes' = Note(op, layer)
                       /\ Contributes(layer, k)
        /\ DOMAIN hotkeys' \subseteq AllKeys ]_vars

\* a matched key-down ("!" fires the prestige hotkey) in a registry where
\* removeLayer(main) has cleared "a" and left the prestige entry of "!" alone
C20_Witness ==
    /\ Ungated
    /\ onPressCalls = << "pB" >>
    /\ Len(notes) > 0
    /\ notes[Len(notes)] = [op |-> "remove", layer |-> "main"]
    /\ <<"a">> \in DOMAIN hotkeys /\ hotkeys[<<"a">>] = Undefined
    /\ hotkeys[<<"!">>] = "pB"

====
